---- MODULE Spec2Model ----
(***************************************************************************)
(* Model of src/app.py: the OpenRouter bank statement extractor.           *)
(*                                                                         *)
(* Python values are records tagged by their type: [t |-> "None"],         *)
(* [t |-> "str", s |-> ...], [t |-> "list", items |-> ...],                *)
(* [t |-> "dict", keys |-> ..., vals |-> ...].  Text is a TLA+ string and  *)
(* is taken apart character by character with Len and SubSeq.              *)
(*                                                                         *)
(* The page holds the elements a run adds (st.info, st.error, st.json,     *)
(* st.subheader, st.code, st.dataframe, st.download_button, st.warning);   *)
(* the title, markdown, caption and the transient spinner are left out.    *)
(* An exception that leaves the script ends the run; the page stays up.    *)
(* Text is ASCII, so encode("utf-8") keeps it character for character.     *)
(***************************************************************************)
EXTENDS Integers, Sequences, FiniteSets, TLC

VARIABLES
    apiKey,        \* OPENROUTER_API_KEY, read from the environment (line 12)
    uploaded_file, \* what st.file_uploader returns: NoFile or [name, data, pos]
    run,           \* "none" | "rendered" | "posting" | "ended": the script run
    shown,         \* the elements the run has put on the page, in order
    exc,           \* the exception that left the run ("none" when none did)
    posts,         \* requests.post calls issued by the current run
    inflight,      \* the request awaiting its response (NoRequest when none)
    response,      \* the response the last request got (NoResponse when none)
    csv_output,    \* what call_openrouter_api returned to the run flow
    download,      \* the file the download button offers (NoDownload when none)
    encFile,       \* SpecEnc: the file object pdf_to_base64 is called on
    encOut,        \* SpecEnc: the results of the calls so far
    promptArg,     \* SpecPrompt: the argument of generate_openrouter_prompt
    promptOut      \* SpecPrompt: the results of the calls so far

vars == <<apiKey, uploaded_file, run, shown, exc, posts, inflight, response,
          csv_output, download, encFile, encOut, promptArg, promptOut>>

runVars == <<apiKey, uploaded_file, run, shown, exc, posts, inflight, response,
             csv_output, download>>
encVars == <<encFile, encOut>>
promptVars == <<promptArg, promptOut>>

---------------------------------------------------------------------------
(* Bounds *)

MaxDocLen == 3
MaxLines == 3
MaxCalls == 2

---------------------------------------------------------------------------
(* Python values *)

PyNone == [t |-> "None"]
PyStr(s) == [t |-> "str", s |-> s]
PyList(items) == [t |-> "list", items |-> items]
PyDict(keys, vals) == [t |-> "dict", keys |-> keys, vals |-> vals]

\* bool(v): None, "", [] and {} are falsy.
Truthy(v) ==
    CASE v.t = "None" -> FALSE
      [] v.t = "str"  -> v.s # ""
      [] v.t = "list" -> v.items # <<>>
      [] v.t = "dict" -> v.keys # <<>>
      [] OTHER        -> TRUE

Char(s, i) == SubSeq(s, i, i)

Max(a, b) == IF a >= b THEN a ELSE b

---------------------------------------------------------------------------
(* pdf_to_base64 *)

ByteVals == {0, 77, 255}

RECURSIVE SeqsUpTo(_, _)
SeqsUpTo(S, n) ==
    IF n = 0 THEN {<<>>}
    ELSE LET shorter == SeqsUpTo(S, n - 1)
         IN  shorter \cup {Append(q, x) : q \in shorter, x \in S}

Docs == SeqsUpTo(ByteVals, MaxDocLen)

B64Alphabet == "ABCDEFGHIJKLMNOPQRSTUVWXYZabcdefghijklmnopqrstuvwxyz0123456789+/"

B64Char(i) == Char(B64Alphabet, i + 1)

\* base64.b64encode(bytes).decode("utf-8")
RECURSIVE b64encode(_)
b64encode(bytes) ==
    IF Len(bytes) = 0 THEN ""
    ELSE IF Len(bytes) = 1 THEN
        LET n == bytes[1] * 65536
        IN  B64Char(n \div 262144) \o B64Char((n \div 4096) % 64) \o "=="
    ELSE IF Len(bytes) = 2 THEN
        LET n == bytes[1] * 65536 + bytes[2] * 256
        IN  B64Char(n \div 262144) \o B64Char((n \div 4096) % 64)
              \o B64Char((n \div 64) % 64) \o "="
    ELSE
        LET n == bytes[1] * 65536 + bytes[2] * 256 + bytes[3]
        IN  B64Char(n \div 262144) \o B64Char((n \div 4096) % 64)
              \o B64Char((n \div 64) % 64) \o B64Char(n % 64)
              \o b64encode(SubSeq(bytes, 4, Len(bytes)))

NoFile == [t |-> "None"]
UploadedFile(name, data) == [t |-> "file", name |-> name, data |-> data, pos |-> 0]

\* uploaded_file.read(): the bytes from the read position to the end.
FileRead(f) == SubSeq(f.data, f.pos + 1, Len(f.data))
\* The file object after read(): the read position is at the end.
FileAfterRead(f) == [f EXCEPT !.pos = Len(f.data)]

\* pdf_to_base64(uploaded_file): the value returned.
pdf_to_base64(f) ==
    IF f.t = "None" THEN PyNone
    ELSE PyStr(b64encode(FileRead(f)))

\* pdf_to_base64(uploaded_file): the file object it leaves behind.
pdf_to_base64_file(f) ==
    IF f.t = "None" THEN f ELSE FileAfterRead(f)

---------------------------------------------------------------------------
(* generate_openrouter_prompt *)

system_prompt ==
    "You are an expert financial data analyst. Your task is to accurately "
    \o "extract all bank transactions from the provided PDF statement image. "
    \o "Your final output MUST be a CSV table with three columns: Date, Description, Amount. "
    \o "The Date must be in YYYY-MM-DD format. "
    \o "The Amount must be a number with two decimal places. Debits must be negative, Credits positive."

user_prompt ==
    "Process the attached bank statement. EXTRACT ALL individual transaction line items. "
    \o "CRITICAL INSTRUCTION: If the statement has a column specifically labeled 'Fees', "
    \o "DO NOT use the amounts from that dedicated column in the final 'Amount' column. "
    \o "However, INCLUDE any fee-related transactions (e.g., 'Service Fee', 'ATM Fee') "
    \o "that appear as a separate line item in the main debit/credit columns."

DataUrlPrefix == "data:application/pdf;base64,"

\* The message list of lines 51-60.
PromptMessages(b64) ==
    << [role |-> "system", content |-> PyStr(system_prompt)],
       [role |-> "user", content |-> PyList(<<
           [type |-> "text", text |-> user_prompt],
           [type |-> "image_url",
            image_url |-> [url |-> DataUrlPrefix \o b64, detail |-> "high"]] >>)] >>

\* A builder that only tests for None: "" is given a payload.
generate_openrouter_prompt_NoneOnly(file_base64_string) ==
    IF file_base64_string.t = "None" THEN <<>>
    ELSE PromptMessages(file_base64_string.s)

generate_openrouter_prompt(file_base64_string) ==
    IF ~Truthy(file_base64_string) THEN <<>>
    ELSE PromptMessages(file_base64_string.s)

---------------------------------------------------------------------------
(* call_openrouter_api *)

OPENROUTER_MODEL == "openai/gpt-4o"

ApiKeys == {PyNone, PyStr(""), PyStr("sk-or-v1-k")}

\* A check that only tests for None: the empty key passes.
KeyMissing_NoneOnly(key) == key.t = "None"

\* `not OPENROUTER_API_KEY`
KeyMissing(key) == ~Truthy(key)

Headers(key) ==
    [Authorization |-> "Bearer " \o key.s, ContentType |-> "application/json"]

Payload(messages) ==
    [model |-> OPENROUTER_MODEL, messages |-> messages, temperature |-> 0,
     max_tokens |-> 4096, file_input_mode |-> "base64"]

NoRequest == [t |-> "None"]
Request(key, messages) ==
    [t |-> "post", url |-> "https://openrouter.ai/api/v1/chat/completions",
     headers |-> Headers(key), json |-> Payload(messages)]

\* Page elements.
Elem(kind, text) == [kind |-> kind, text |-> text]
JsonElem(value) == [kind |-> "json", value |-> value]

ConfigErrorElem ==
    Elem("error", "OpenRouter API Key not found. Please set the OPENROUTER_API_KEY in your Streamlit secrets.")
RequestFailedElem(cause) == Elem("error", "OpenRouter API Request Failed: " \o cause)
RequestFailedInfo ==
    Elem("info", "Check if your API key is valid, the model is correct, or if you have hit a rate limit.")
ShapeErrorElem ==
    Elem("error", "Error parsing OpenRouter response. The model may have returned an error or an unexpected format.")

\* What an evaluation yields: a value, or the exception it raised.
Ok(v) == [ok |-> TRUE, val |-> v, exc |-> "none"]
Raise(e) == [ok |-> FALSE, val |-> PyNone, exc |-> e]

RECURSIVE IndexOf(_, _, _)
IndexOf(keys, k, i) ==
    IF i > Len(keys) THEN 0
    ELSE IF keys[i] = k THEN i
    ELSE IndexOf(keys, k, i + 1)

\* v[key] for a string key.
GetKey(v, key) ==
    IF v.t = "dict" THEN
        LET i == IndexOf(v.keys, key, 1)
        IN  IF i = 0 THEN Raise("KeyError") ELSE Ok(v.vals[i])
    ELSE Raise("TypeError")

\* v[0]
GetFirst(v) ==
    CASE v.t = "list" -> IF Len(v.items) = 0 THEN Raise("IndexError") ELSE Ok(v.items[1])
      [] v.t = "str"  -> IF Len(v.s) = 0 THEN Raise("IndexError") ELSE Ok(PyStr(Char(v.s, 1)))
      [] v.t = "dict" -> Raise("KeyError")
      [] OTHER        -> Raise("TypeError")

\* response_json["choices"][0]["message"]["content"]
ExtractContent(response_json) ==
    LET r1 == GetKey(response_json, "choices") IN
    IF ~r1.ok THEN r1 ELSE
    LET r2 == GetFirst(r1.val) IN
    IF ~r2.ok THEN r2 ELSE
    LET r3 == GetKey(r2.val, "message") IN
    IF ~r3.ok THEN r3 ELSE
    GetKey(r3.val, "content")

Digits == "0123456789"

RECURSIVE NatToStr(_)
NatToStr(n) ==
    IF n < 10 THEN Char(Digits, n + 1)
    ELSE NatToStr(n \div 10) \o Char(Digits, (n % 10) + 1)

\* response.raise_for_status(): the HTTPError message, "" when none is raised.
StatusError(status) ==
    IF status >= 400 /\ status < 500 THEN NatToStr(status) \o " Client Error"
    ELSE IF status >= 500 /\ status < 600 THEN NatToStr(status) \o " Server Error"
    ELSE ""

\* The except clause for requests.exceptions.RequestException (lines 94-97).
OnRequestException(cause) ==
    [ret |-> PyNone, shown |-> <<RequestFailedElem(cause), RequestFailedInfo>>, exc |-> "none"]

\* The except clause for KeyError (lines 98-101).
OnKeyError(response_json) ==
    [ret |-> PyNone, shown |-> <<ShapeErrorElem, JsonElem(response_json)>>, exc |-> "none"]

\* An exception no except clause names leaves the function.
Escapes(e) == [ret |-> PyNone, shown |-> <<>>, exc |-> e]

\* Lines 84-101 once requests.post has its outcome.  jsonErrIsRequestException:
\* response.json() raises requests.exceptions.JSONDecodeError, which is a
\* RequestException from requests 2.27 on and only a ValueError before.
HandleResponse(resp, jsonErrIsRequestException) ==
    IF resp.kind = "neterr" THEN OnRequestException("ConnectionError")
    ELSE IF StatusError(resp.status) # "" THEN OnRequestException(StatusError(resp.status))
    ELSE IF ~resp.isJson THEN
        IF jsonErrIsRequestException THEN OnRequestException("JSONDecodeError")
        ELSE Escapes("JSONDecodeError")
    ELSE
        LET c == ExtractContent(resp.body) IN
        IF c.ok THEN [ret |-> c.val, shown |-> <<>>, exc |-> "none"]
        ELSE IF c.exc = "KeyError" THEN OnKeyError(resp.body)
        ELSE Escapes(c.exc)

---------------------------------------------------------------------------
(* pd.read_csv and DataFrame.to_csv, for unquoted comma-separated text whose *)
(* numbers are plain decimals (no exponent, fewer than 16 digits).           *)

\* s.split(sep) for a one-character separator: the pieces between the
\* places of sep, in order.
Split(s, sep) ==
    LET at == {i \in 1..Len(s) : Char(s, i) = sep}
        cut(k) == IF k = 0 THEN 0
                  ELSE IF k > Cardinality(at) THEN Len(s) + 1
                  ELSE CHOOSE i \in at : Cardinality({j \in at : j < i}) = k - 1
    IN  [k \in 1..(Cardinality(at) + 1) |-> SubSeq(s, cut(k - 1) + 1, cut(k) - 1)]

RECURSIVE Join(_, _)
Join(parts, sep) ==
    IF Len(parts) = 0 THEN ""
    ELSE IF Len(parts) = 1 THEN parts[1]
    ELSE parts[1] \o sep \o Join(Tail(parts), sep)

NonBlank(l) == l # ""

\* The tokenizer: the non-blank lines (skip_blank_lines), each split at commas.
Tokenize(text) ==
    LET ls == SelectSeq(Split(text, "\n"), NonBlank)
    IN  [i \in 1..Len(ls) |-> Split(ls[i], ",")]

DigitChars == {"0", "1", "2", "3", "4", "5", "6", "7", "8", "9"}

IsDigits(s) == Len(s) > 0 /\ \A i \in 1..Len(s) : Char(s, i) \in DigitChars
IsDigitsOrEmpty(s) == \A i \in 1..Len(s) : Char(s, i) \in DigitChars

HasSign(s) == Len(s) > 0 /\ Char(s, 1) \in {"-", "+"}
IsNeg(s) == Len(s) > 0 /\ Char(s, 1) = "-"
Unsigned(s) == IF HasSign(s) THEN SubSeq(s, 2, Len(s)) ELSE s

IsInt(s) == IsDigits(Unsigned(s))

IsFloat(s) ==
    LET parts == Split(Unsigned(s), ".")
    IN  /\ Len(parts) = 2
        /\ IsDigitsOrEmpty(parts[1]) /\ IsDigitsOrEmpty(parts[2])
        /\ parts[1] \o parts[2] # ""

RECURSIVE StripLeadingZeros(_)
StripLeadingZeros(d) ==
    IF Len(d) > 0 /\ Char(d, 1) = "0" THEN StripLeadingZeros(SubSeq(d, 2, Len(d)))
    ELSE d

RECURSIVE StripTrailingZeros(_)
StripTrailingZeros(d) ==
    IF Len(d) > 0 /\ Char(d, Len(d)) = "0" THEN StripTrailingZeros(SubSeq(d, 1, Len(d) - 1))
    ELSE d

OrZero(d) == IF d = "" THEN "0" ELSE d

\* str(int(s))
IntRepr(s) ==
    LET d == StripLeadingZeros(Unsigned(s))
    IN  IF d = "" THEN "0" ELSE (IF IsNeg(s) THEN "-" ELSE "") \o d

\* repr(float(s)): the shortest decimal that reads back as the same float
FloatRepr(s) ==
    LET parts == Split(Unsigned(s), ".")
        ip == StripLeadingZeros(parts[1])
        fp == IF Len(parts) = 2 THEN StripTrailingZeros(parts[2]) ELSE ""
    IN  (IF IsNeg(s) THEN "-" ELSE "") \o OrZero(ip) \o "." \o OrZero(fp)

\* The strings read_csv reads as a missing value (its default na_values).
NaValues ==
    {"", "#N/A", "#N/A N/A", "#NA", "-1.#IND", "-1.#QNAN", "-NaN", "-nan",
     "1.#IND", "1.#QNAN", "<NA>", "N/A", "NA", "NULL", "NaN", "None", "n/a",
     "nan", "null"}

\* The dtype read_csv infers for a column from its cells.
ColumnDtype(cells) ==
    LET I == {i \in 1..Len(cells) : cells[i] \notin NaValues}
    IN  IF Len(cells) = 0 THEN "object"
        ELSE IF \A i \in I : IsInt(cells[i])
             THEN (IF I = 1..Len(cells) THEN "int64" ELSE "float64")
        ELSE IF \A i \in I : IsInt(cells[i]) \/ IsFloat(cells[i]) THEN "float64"
        ELSE "object"

\* How to_csv writes a cell of a column of the given dtype.
FormatCell(dtype, cell) ==
    IF cell \in NaValues THEN ""
    ELSE IF dtype = "int64" THEN IntRepr(cell)
    ELSE IF dtype = "float64" THEN FloatRepr(cell)
    ELSE cell

Pad(fields, w) == [i \in 1..w |-> IF i <= Len(fields) THEN fields[i] ELSE ""]

\* The column names: an empty name is "Unnamed: i", a repeated one gets ".k".
ColumnNames(header) ==
    LET named == [i \in 1..Len(header) |->
                    IF header[i] = "" THEN "Unnamed: " \o NatToStr(i - 1) ELSE header[i]]
        before(i) == Cardinality({j \in 1..(i - 1) : named[j] = named[i]})
    IN  [i \in 1..Len(header) |->
            IF before(i) = 0 THEN named[i] ELSE named[i] \o "." \o NatToStr(before(i))]

\* pd.read_csv(BytesIO(text.encode("utf-8"))).  The width of the table is that
\* of the header or of the first data line, whichever is wider; the extra
\* leading fields of the data lines are the index.  A later line wider than
\* the table is a ParserError; a narrower one is padded with missing values.
read_csv(text) ==
    LET lines == Tokenize(text) IN
    IF Len(lines) = 0
    THEN [ok |-> FALSE, err |-> "EmptyDataError", columns |-> <<>>, dtypes |-> <<>>, rows |-> <<>>]
    ELSE
    LET header == lines[1]
        width == IF Len(lines) >= 2 THEN Max(Len(header), Len(lines[2])) ELSE Len(header)
        leading == width - Len(header)
    IN  IF \E i \in 3..Len(lines) : Len(lines[i]) > width
        THEN [ok |-> FALSE, err |-> "ParserError", columns |-> <<>>, dtypes |-> <<>>, rows |-> <<>>]
        ELSE
        LET rows == [r \in 1..(Len(lines) - 1) |->
                        SubSeq(Pad(lines[r + 1], width), leading + 1, width)]
            column(c) == [r \in 1..Len(rows) |-> rows[r][c]]
        IN  [ok |-> TRUE, err |-> "none",
             columns |-> ColumnNames(header),
             dtypes |-> [c \in 1..Len(header) |-> ColumnDtype(column(c))],
             rows |-> rows]

\* df.to_csv(index=False)
to_csv(df) ==
    LET line(r) == Join([c \in 1..Len(df.columns) |-> FormatCell(df.dtypes[c], df.rows[r][c])], ",")
    IN  Join(df.columns, ",") \o "\n"
          \o Join([r \in 1..Len(df.rows) |-> line(r) \o "\n"], "")

---------------------------------------------------------------------------
(* The run flow (lines 110-145) *)

FileNames == {"stmt.pdf", "a.pdf.pdf"}

\* The documents of the runs: an empty file, one byte, and "%PDF".
RunDocs == {<<>>, <<77>>, <<37, 80, 68, 70>>}

\* s.replace(old, "")
RECURSIVE Remove(_, _)
Remove(s, old) ==
    IF Len(s) < Len(old) THEN s
    ELSE IF SubSeq(s, 1, Len(old)) = old THEN Remove(SubSeq(s, Len(old) + 1, Len(s)), old)
    ELSE Char(s, 1) \o Remove(SubSeq(s, 2, Len(s)), old)

UploadInfo(name) == Elem("info", "File uploaded: **" \o name \o "**. Click below to process.")

NoDownload == [t |-> "None"]
DownloadButton(data, name) ==
    [t |-> "download", label |-> "Download Data as CSV", data |-> data,
     file_name |-> "transactions_" \o Remove(name, ".pdf") \o "_OpenRouter.csv",
     mime |-> "text/csv"]

CsvSubheader == Elem("subheader", "Extracted Transactions (CSV Format)")
TableSubheader == Elem("subheader", "Transaction Table")
DataFrameElem(df) == [kind |-> "dataframe", df |-> df]
DownloadElem == Elem("download_button", "Download Data as CSV")
ParseWarning(err) ==
    Elem("warning", "Could not convert AI output to DataFrame. Raw output may still be usable. Error: " \o err)

\* A flow that shows the raw text only once it has parsed.
Interpret_CodeAfterParse(text, name) ==
    LET df == read_csv(text) IN
    IF df.ok
    THEN [shown |-> <<CsvSubheader, Elem("code", text), TableSubheader, DataFrameElem(df), DownloadElem>>,
          download |-> DownloadButton(to_csv(df), name)]
    ELSE [shown |-> <<ParseWarning(df.err)>>, download |-> NoDownload]

\* Lines 127-145: the raw text, then the table and the download, or the warning.
Interpret(text, name) ==
    LET df == read_csv(text) IN
    IF df.ok
    THEN [shown |-> <<CsvSubheader, Elem("code", text), TableSubheader, DataFrameElem(df), DownloadElem>>,
          download |-> DownloadButton(to_csv(df), name)]
    ELSE [shown |-> <<CsvSubheader, Elem("code", text), ParseWarning(df.err)>>,
          download |-> NoDownload]

\* A guard that lets the empty document through and stops the others.
DocPresent_Inverted(pdf_b64) == ~Truthy(pdf_b64)

\* `if pdf_b64:` (line 122)
DocPresent(pdf_b64) == Truthy(pdf_b64)

\* The responses of the remote.
Dict1(k, v) == PyDict(<<k>>, <<v>>)
EmptyDict == PyDict(<<>>, <<>>)
ContentBody(c) == Dict1("choices", PyList(<<Dict1("message", Dict1("content", c))>>))

TextLines ==
    {"Date,Description,Amount",
     "2024-02-01,ATM Fee,-3.00",
     "2024-01-06,Payroll Deposit,1500.00",
     "Sorry, I cannot read this file",
     "2024-02-01,Coffee Shop,-4.50,0.25"}

Texts == {Join(ls, "\n") : ls \in SeqsUpTo(TextLines, MaxLines)}

ShapelessBodies ==
    {EmptyDict,
     Dict1("error", PyStr("rate limited")),
     Dict1("choices", PyList(<<>>)),
     Dict1("choices", PyList(<<PyStr("x")>>)),
     Dict1("choices", EmptyDict),
     Dict1("choices", PyList(<<EmptyDict>>)),
     Dict1("choices", PyList(<<Dict1("message", EmptyDict)>>)),
     PyList(<<>>),
     ContentBody(PyNone)}

JsonBodies == ShapelessBodies \cup {ContentBody(PyStr(x)) : x \in Texts}

\* 300 is a status requests.post hands back: it follows only a 301, 302, 303,
\* 307 or 308 that names a Location.
HttpStatuses == {200, 300, 404, 503}

NoResponse == [kind |-> "none", status |-> 0, isJson |-> FALSE, body |-> PyNone]
NetErr == [kind |-> "neterr", status |-> 0, isJson |-> FALSE, body |-> PyNone]

Responses ==
    {NetErr}
    \cup {[kind |-> "http", status |-> st, isJson |-> TRUE, body |-> b] :
            st \in HttpStatuses, b \in JsonBodies}
    \cup {[kind |-> "http", status |-> st, isJson |-> FALSE, body |-> PyStr("<html>")] :
            st \in HttpStatuses}

Init ==
    /\ apiKey \in ApiKeys
    /\ uploaded_file = NoFile
    /\ run = "none"
    /\ shown = <<>>
    /\ exc = "none"
    /\ posts = 0
    /\ inflight = NoRequest
    /\ response = NoResponse
    /\ csv_output = PyNone
    /\ download = NoDownload
    /\ encFile = NoFile
    /\ encOut = <<>>
    /\ promptArg = PyNone
    /\ promptOut = <<>>

\* The user picks a file: the script reruns with the button not clicked.
Upload(name, data) ==
    /\ run # "posting"
    /\ uploaded_file' = UploadedFile(name, data)
    /\ run' = "rendered"
    /\ shown' = <<UploadInfo(name)>>
    /\ exc' = "none"
    /\ posts' = 0
    /\ inflight' = NoRequest
    /\ response' = NoResponse
    /\ csv_output' = PyNone
    /\ download' = NoDownload
    /\ UNCHANGED <<apiKey, encVars, promptVars>>

\* The user clicks the button: the script reruns, st.file_uploader hands it a
\* new file object on the same upload, and lines 116-124 run up to the call
\* of requests.post.
ClickProcess ==
    /\ run \in {"rendered", "ended"}
    /\ uploaded_file # NoFile
    /\ LET file == UploadedFile(uploaded_file.name, uploaded_file.data)
           pdf_b64 == pdf_to_base64(file)
           messages == generate_openrouter_prompt(pdf_b64)
       IN  /\ uploaded_file' = pdf_to_base64_file(file)
           /\ exc' = "none"
           /\ response' = NoResponse
           /\ csv_output' = PyNone
           /\ download' = NoDownload
           /\ IF ~DocPresent(pdf_b64) THEN
                  /\ shown' = <<UploadInfo(file.name)>>
                  /\ posts' = 0
                  /\ inflight' = NoRequest
                  /\ run' = "ended"
              ELSE IF KeyMissing(apiKey) THEN
                  /\ shown' = <<UploadInfo(file.name), ConfigErrorElem>>
                  /\ posts' = 0
                  /\ inflight' = NoRequest
                  /\ run' = "ended"
              ELSE
                  /\ shown' = <<UploadInfo(file.name)>>
                  /\ posts' = 1
                  /\ inflight' = Request(apiKey, messages)
                  /\ run' = "posting"
    /\ UNCHANGED <<apiKey, encVars, promptVars>>

\* requests.post returns or raises: the rest of call_openrouter_api (lines
\* 89-101) and of the run (lines 126-145).
Respond(resp, jsonErrIsRequestException) ==
    /\ run = "posting"
    /\ LET res == HandleResponse(resp, jsonErrIsRequestException)
           out == IF res.exc = "none" /\ Truthy(res.ret)
                  THEN Interpret(res.ret.s, uploaded_file.name)
                  ELSE [shown |-> <<>>, download |-> NoDownload]
       IN  /\ response' = resp
           /\ inflight' = NoRequest
           /\ exc' = res.exc
           /\ csv_output' = res.ret
           /\ shown' = shown \o res.shown \o out.shown
           /\ download' = out.download
           /\ run' = "ended"
    /\ UNCHANGED <<apiKey, uploaded_file, posts, encVars, promptVars>>

NonJsonResponses == {r \in Responses : r.kind = "http" /\ ~r.isJson}

\* A body that is not JSON makes response.json() raise
\* requests.exceptions.JSONDecodeError: a RequestException with requests 2.27
\* and later, only a ValueError with an older requests.
Next ==
    \/ \E name \in FileNames, data \in RunDocs : Upload(name, data)
    \/ ClickProcess
    \/ \E resp \in Responses : Respond(resp, TRUE)
    \/ \E resp \in NonJsonResponses : Respond(resp, FALSE)

Spec == Init /\ [][Next]_vars

---------------------------------------------------------------------------
(* pdf_to_base64 called again and again on one file object *)

EncInit ==
    /\ encFile \in {NoFile} \cup {UploadedFile("stmt.pdf", d) : d \in Docs}
    /\ encOut = <<>>
    /\ promptArg = PyNone
    /\ promptOut = <<>>
    /\ apiKey = PyNone
    /\ uploaded_file = NoFile
    /\ run = "none"
    /\ shown = <<>>
    /\ exc = "none"
    /\ posts = 0
    /\ inflight = NoRequest
    /\ response = NoResponse
    /\ csv_output = PyNone
    /\ download = NoDownload

EncCall ==
    /\ Len(encOut) < MaxCalls
    /\ encOut' = Append(encOut, pdf_to_base64(encFile))
    /\ encFile' = pdf_to_base64_file(encFile)
    /\ UNCHANGED <<runVars, promptVars>>

EncNext == EncCall

SpecEnc == EncInit /\ [][EncNext]_vars

---------------------------------------------------------------------------
(* generate_openrouter_prompt called again and again on one argument *)

PromptArgs == {PyNone} \cup {PyStr(b64encode(d)) : d \in Docs}

PromptInit ==
    /\ promptArg \in PromptArgs
    /\ promptOut = <<>>
    /\ encFile = NoFile
    /\ encOut = <<>>
    /\ apiKey = PyNone
    /\ uploaded_file = NoFile
    /\ run = "none"
    /\ shown = <<>>
    /\ exc = "none"
    /\ posts = 0
    /\ inflight = NoRequest
    /\ response = NoResponse
    /\ csv_output = PyNone
    /\ download = NoDownload

PromptCall ==
    /\ Len(promptOut) < MaxCalls
    /\ promptOut' = Append(promptOut, generate_openrouter_prompt(promptArg))
    /\ UNCHANGED <<promptArg, runVars, encVars>>

PromptNext == PromptCall

SpecPrompt == PromptInit /\ [][PromptNext]_vars

---------------------------------------------------------------------------
(* The claims *)

HasKind(k) == \E i \in 1..Len(shown) : shown[i].kind = k
Shows(e) == \E i \in 1..Len(shown) : shown[i] = e
StartsWith(s, prefix) == Len(s) >= Len(prefix) /\ SubSeq(s, 1, Len(prefix)) = prefix
NothingExtracted ==
    /\ ~HasKind("code") /\ ~HasKind("dataframe") /\ ~HasKind("download_button")
    /\ download = NoDownload
IsSuccess(status) == status >= 200 /\ status < 300
CredentialAbsent == apiKey = PyNone \/ apiKey = PyStr("")
DocumentEmpty == uploaded_file = NoFile \/ uploaded_file.data = <<>>

\* C1: with no credential (absent or empty) no request is ever issued; a run
\* that reaches call_openrouter_api reports the configuration error, gets the
\* failure value, and shows no raw text, table or download.
C1_NoCredentialNoRequest ==
    CredentialAbsent =>
        /\ posts = 0
        /\ inflight = NoRequest
        /\ run # "posting"
        /\ response = NoResponse
        /\ NothingExtracted
        /\ (run = "ended" /\ ~DocumentEmpty =>
                /\ Shows(ConfigErrorElem)
                /\ csv_output = PyNone
                /\ exc = "none")

C1_Witness ==
    /\ apiKey = PyStr("")
    /\ run = "ended"
    /\ ~DocumentEmpty
    /\ Shows(ConfigErrorElem)

HasStringContent(resp) ==
    /\ resp.isJson
    /\ resp.body.t = "dict"
    /\ LET c == ExtractContent(resp.body) IN c.ok /\ c.val.t = "str"

\* C2: every 2xx response whose body holds no string at
\* choices[0].message.content ends in the shape error: the error and the raw
\* body are shown, the failure value is returned, no exception leaves.
C2_ShapeErrorReported ==
    (/\ run = "ended"
     /\ response.kind = "http"
     /\ IsSuccess(response.status)
     /\ ~HasStringContent(response))
    => /\ exc = "none"
       /\ Shows(ShapeErrorElem)
       /\ HasKind("json")
       /\ csv_output = PyNone

\* C3: a network error or a non-success (non-2xx) status ends in the
\* transport error: the cause is reported, the failure value is returned,
\* and the run shows no raw text, table or download.
C3_TransportErrorReported ==
    (/\ run = "ended"
     /\ \/ response.kind = "neterr"
        \/ response.kind = "http" /\ ~IsSuccess(response.status))
    => /\ exc = "none"
       /\ \E i \in 1..Len(shown) :
            /\ shown[i].kind = "error"
            /\ StartsWith(shown[i].text, "OpenRouter API Request Failed: ")
       /\ csv_output = PyNone
       /\ NothingExtracted

\* C4: every run ends with the raw text shown or an error or warning
\* reported, with no exception leaving it, and another run can be started.
C4_EveryRunReportsOutcome ==
    run = "ended" =>
        /\ exc = "none"
        /\ (HasKind("code") \/ HasKind("error") \/ HasKind("warning"))
        /\ ENABLED ClickProcess

FirstOf(k) == CHOOSE i \in 1..Len(shown) : shown[i].kind = k /\ \A j \in 1..(i - 1) : shown[j].kind # k

\* C5: when the returned text is non-empty it is displayed before anything
\* that comes of parsing it; if parsing fails a warning is reported, no
\* table and no download are offered, the raw text stays displayed and no
\* exception leaves the run.
C5_ParseFailureNotFatal ==
    (run = "ended" /\ Truthy(csv_output)) =>
        /\ exc = "none"
        /\ Shows(Elem("code", csv_output.s))
        /\ \A i \in 1..Len(shown) :
              shown[i].kind \in {"dataframe", "download_button", "warning"} => FirstOf("code") < i
        /\ (~read_csv(csv_output.s).ok =>
                /\ HasKind("warning")
                /\ ~HasKind("dataframe")
                /\ ~HasKind("download_button")
                /\ download = NoDownload)

C5_Witness ==
    /\ run = "ended"
    /\ Truthy(csv_output)
    /\ ~read_csv(csv_output.s).ok
    /\ HasKind("warning")
    /\ HasKind("code")

\* Text whose every line has exactly three comma-separated fields.
IsThreeColumnTable(text) ==
    LET lines == Tokenize(text)
    IN  Len(lines) >= 1 /\ \A i \in 1..Len(lines) : Len(lines[i]) = 3

\* C6: returned text that is not a three-column comma-separated table ends
\* in the parse warning, with no table and no download offered.
C6_NonTableIsParseError ==
    (run = "ended" /\ Truthy(csv_output) /\ ~IsThreeColumnTable(csv_output.s)) =>
        /\ HasKind("warning")
        /\ ~HasKind("dataframe")
        /\ download = NoDownload

\* C7: for returned text that is a table under the header
\* Date,Description,Amount, the downloaded file holds the same columns, the
\* same rows in the same order, and every field character for character.
C7_DownloadRoundTrips ==
    (/\ run = "ended"
     /\ Truthy(csv_output)
     /\ IsThreeColumnTable(csv_output.s)
     /\ Tokenize(csv_output.s)[1] = <<"Date", "Description", "Amount">>)
    => /\ download # NoDownload
       /\ Tokenize(download.data) = Tokenize(csv_output.s)

\* C8: however often pdf_to_base64 is called on an uploaded document, every
\* call returns the encoding of the whole document and the document's
\* content and read position are as before the first call.
C8_EncoderIsPure ==
    encFile # NoFile =>
        /\ encFile.pos = 0
        /\ \A i \in 1..Len(encOut) : encOut[i] = PyStr(b64encode(encFile.data))

DocumentRefs(parts) == {j \in 1..Len(parts) : parts[j].type = "image_url"}

\* C10: generate_openrouter_prompt gives an absent or empty encoded document
\* the empty payload, and any other one exactly two messages, system then
\* user, the user message holding one text part and then exactly one
\* document reference that embeds the encoded document unchanged; the
\* instruction texts are the same in every call.
C10_PromptShape ==
    \A i \in 1..Len(promptOut) :
        LET p == promptOut[i] IN
        IF promptArg = PyNone \/ promptArg = PyStr("") THEN p = <<>>
        ELSE /\ Len(p) = 2
             /\ p[1].role = "system"
             /\ p[2].role = "user"
             /\ p[1].content.t = "str"
             /\ p[2].content.t = "list"
             /\ LET parts == p[2].content.items
                    url == parts[2].image_url.url
                IN  /\ Len(parts) = 2
                    /\ parts[1].type = "text"
                    /\ DocumentRefs(parts) = {2}
                    /\ StartsWith(url, "data:application/pdf;base64,")
                    /\ SubSeq(url, Len(url) - Len(promptArg.s) + 1, Len(url)) = promptArg.s
                    /\ Len(url) = Len("data:application/pdf;base64,") + Len(promptArg.s)
                    /\ parts[1].text = promptOut[1][2].content.items[1].text
                    /\ StartsWith(parts[1].text, "Process the attached bank statement.")
             /\ p[1].content = promptOut[1][1].content
             /\ StartsWith(p[1].content.s, "You are an expert financial data analyst.")

C10_Witness ==
    /\ Len(promptOut) = MaxCalls
    /\ Truthy(promptArg)
    /\ Len(promptOut[MaxCalls]) = 2

====
